---- MODULE Spec2Model ----
(***************************************************************************)
(* A model of vsix_downloader.py: the Locator, build_dependency_tree,      *)
(* get_download_order, download_with_retry, download_extension and main.   *)
(* Strings that the code splits or concatenates are sequences of           *)
(* characters; a string field that holds Python's None is the value None.  *)
(***************************************************************************)
EXTENDS Integers, Sequences, FiniteSets, TLC

\* ------------------------------------------------------------------ bounds

\* The longest extensionDependencies list a manifest of the model declares.
MaxDeps == 2

\* The longest package body, in chunks, that the server of the model serves.
MaxBytes == 2

\* ------------------------------------------------------ values and strings

\* None in a field that otherwise holds a string.
None == <<>>

Dot == "."

Publisher == <<"p">>

ExtensionIds == {<<"a">>, <<"b">>, <<"c">>}

\* Extension.__init__: self.key = f'{publisher}.{extension_id}'
KeyOf(publisher, extension_id) == publisher \o <<Dot>> \o extension_id

Keys == {KeyOf(Publisher, i) : i \in ExtensionIds}

\* Extension(publisher, extension_id): version and download_url default to None,
\* dependencies to a fresh empty list.
Extension(publisher, extension_id) ==
    [publisher |-> publisher, extension_id |-> extension_id, version |-> None,
     download_url |-> None, dependencies |-> <<>>,
     key |-> KeyOf(publisher, extension_id)]

\* main's root before build_dependency_tree has returned one.
NoExtension == Extension(None, None)

\* The index of the first Dot of s, 0 when s holds none.
FirstDot(s) ==
    IF \E i \in 1..Len(s) : s[i] = Dot
    THEN CHOOSE i \in 1..Len(s) : s[i] = Dot /\ \A j \in 1..(i - 1) : s[j] # Dot
    ELSE 0

RECURSIVE Split(_)
\* str.split('.'): the components between the dots, in order.
Split(s) ==
    IF FirstDot(s) = 0 THEN <<s>>
    ELSE <<SubSeq(s, 1, FirstDot(s) - 1)>> \o Split(SubSeq(s, FirstDot(s) + 1, Len(s)))

\* ------------------------------------------------------------ the Locator

\* line 114: the version string of the version found for the target platform.
VersionOf(key) == <<"1", Dot, "0">>

\* lines 121-124: the source of the VSIX package asset.
UrlOf(key) == <<"https://cdn/">> \o key

\* The None that get_extension_manifest returns.
NoManifest == [present |-> FALSE, extensionDependencies |-> <<>>]

\* get_extension_manifest: None when the version has no manifest asset or the GET of
\* it fails, the manifest otherwise.
get_extension_manifest(entry) ==
    IF entry.manifest = "ok"
    THEN [present |-> TRUE, extensionDependencies |-> entry.deps]
    ELSE NoManifest

\* get_extension_dependencies: [] for no manifest.
get_extension_dependencies(manifest) ==
    IF ~manifest.present THEN <<>> ELSE manifest.extensionDependencies

\* A Locator for which an extension without a manifest has no package.
LocateManifestFatal(m, key) ==
    IF key \notin DOMAIN m \/ m[key].lookup # "ok" \/ m[key].manifest # "ok"
    THEN [raised |-> TRUE, error |-> "LocatorError"]
    ELSE [raised |-> FALSE, download_url |-> UrlOf(key), version |-> VersionOf(key),
          dependencies |-> m[key].deps]

\* get_extension_info then get_download_info for one key: raises when the query
\* fails, when the result holds no extension, or when no version of the target
\* platform carries a package.
Locate(m, key) ==
    IF key \notin DOMAIN m \/ m[key].lookup # "ok"
    THEN [raised |-> TRUE, error |-> "LocatorError"]
    ELSE [raised |-> FALSE, download_url |-> UrlOf(key), version |-> VersionOf(key),
          dependencies |-> get_extension_dependencies(get_extension_manifest(m[key]))]

\* ------------------------------------------------- build_dependency_tree

\* lines 141-146: the key was added to visited before the Locator was called, and
\* it stays there when the call raises.
VisitedAfterRaiseForgets(visited, key) == visited \ {key}

VisitedAfterRaise(visited, key) == visited

\* lines 155-161: the try is inside the loop, so the loop goes on with the next
\* dependency whether the i-th of n was built or raised.
ContinueAtEndOnRaise(i, n, raised) == IF raised THEN n + 1 ELSE i + 1

ContinueAt(i, n, raised) == i + 1

\* line 157: dep.split('.') is unpacked into two names, which raises for any other
\* number of components.
MalformedOnlyShort(parts) == Len(parts) < 2

Malformed(parts) == Len(parts) # 2

RECURSIVE build_dependency_tree(_, _, _), BuildDeps(_, _, _, _, _)
\* st is the state threaded through the recursion: the visited set and the log of
\* Locator calls. The result says whether the call raised, the node it returns
\* and the state it leaves.
build_dependency_tree(extension, m, st) ==
    IF extension.key \in st.visited
    THEN [raised |-> FALSE, ext |-> extension, st |-> st]
    ELSE LET st1 == [visited |-> st.visited \cup {extension.key},
                     queries |-> Append(st.queries, extension.key)]
             info == Locate(m, extension.key)
         IN  IF info.raised
             THEN [raised |-> TRUE, ext |-> extension,
                   st |-> [st1 EXCEPT !.visited = VisitedAfterRaise(@, extension.key)]]
             ELSE BuildDeps([extension EXCEPT !.version = info.version,
                                              !.download_url = info.download_url],
                            info.dependencies, 1, m, st1)

\* The loop over the declared dependencies, from the i-th on.
BuildDeps(extension, deps, i, m, st) ==
    IF i > Len(deps)
    THEN [raised |-> FALSE, ext |-> extension, st |-> st]
    ELSE LET parts == Split(deps[i])
         IN  IF Malformed(parts)
             THEN BuildDeps(extension, deps, ContinueAt(i, Len(deps), TRUE), m, st)
             ELSE LET r == build_dependency_tree(Extension(parts[1], parts[2]), m, st)
                  IN  IF r.raised
                      THEN BuildDeps(extension, deps, ContinueAt(i, Len(deps), TRUE), m, r.st)
                      ELSE BuildDeps([extension EXCEPT !.dependencies = Append(@, r.ext)],
                                     deps, ContinueAt(i, Len(deps), FALSE), m, r.st)

\* ----------------------------------------------------- get_download_order

\* The guard of lines 172 and 180.
SequencedNever(extension, visited) == FALSE

Sequenced(extension, visited) == extension.key \in visited

\* The dependencies the loop of line 176 walks.
DepsSkipFirst(extension) ==
    IF extension.dependencies = <<>> THEN <<>> ELSE Tail(extension.dependencies)

DepsToProcess(extension) == extension.dependencies

RECURSIVE get_download_order(_, _), OrderDeps(_, _, _)
\* st holds the order list and the visited set, both shared by the whole recursion.
get_download_order(extension, st) ==
    IF Sequenced(extension, st.visited) THEN st
    ELSE LET st1 == OrderDeps(DepsToProcess(extension), 1, st)
         IN  IF Sequenced(extension, st1.visited) THEN st1
             ELSE [order |-> Append(st1.order, extension),
                   visited |-> st1.visited \cup {extension.key}]

OrderDeps(deps, i, st) ==
    IF i > Len(deps) THEN st
    ELSE OrderDeps(deps, i + 1, get_download_order(deps[i], st))

\* ------------------------------------------------------------ file names

Digits == <<"0", "1", "2", "3", "4", "5", "6", "7", "8", "9">>

\* f'{index:02d}'
Pad2(index) == <<Digits[(index \div 10) + 1], Digits[(index % 10) + 1]>>

\* f'{x}' of a string field: None prints as 'None'.
Str(x) == IF x = None THEN <<"None">> ELSE x

\* lines 232-233: os.path.join(output_dir, f'{index:02d}-{publisher}-{id}-{version}.vsix')
OutputPath(extension, index) ==
    <<"downloads/">> \o Pad2(index) \o <<"-">> \o extension.publisher \o <<"-">>
        \o extension.extension_id \o <<"-">> \o Str(extension.version) \o <<".vsix">>

\* line 194: temp_path = output_path + '.tmp'
TempPath(output_path) == output_path \o <<".tmp">>

\* A file that was in the output directory before the run.
OldFile == [bytes |-> 1, declared |-> 1, ended |-> TRUE, origin |-> "before"]

\* open(temp_path, 'wb'): an empty file, created or truncated. declared is the
\* total_size of the attempt that opened it, ended whether its stream ran to its end.
FreshTemp(total) == [bytes |-> 0, declared |-> total, ended |-> FALSE, origin |-> "stream"]

\* A function without the path p.
Without(f, p) == [q \in DOMAIN f \ {p} |-> f[q]]

\* ------------------------------------------------------------------ state

VARIABLES
    url,               \* main: the marketplace URL typed in
    market,            \* the marketplace: key -> entry
    server,            \* the CDN: key -> length of the package body it serves
    download_deps,     \* main: the answer to 'Download dependencies?'
    pc,                \* main's position
    root,              \* main: the tree build_dependency_tree returned
    queries,           \* the Locator calls made, in order
    download_list,     \* main: the list get_download_order returned
    idx,               \* main: the loop's index i, from 1
    downloaded_files,  \* main: the paths of the fetched items
    handed,            \* the list install_extensions was called with
    calls,             \* the download_extension calls made, in order
    log,               \* what main printed per item: the path or the error
    files,             \* the file system: path -> file
    fpc,               \* download_with_retry's position
    attempt,           \* download_with_retry: the loop variable
    total_size,        \* download_with_retry: the local of line 193
    temp_bound,        \* download_with_retry: whether temp_path is bound
    trace              \* the events of the current download_with_retry call

mainVars == <<url, market, server, download_deps, root, queries, download_list>>

fetchVars == <<fpc, attempt, total_size, temp_bound, trace>>

vars == <<url, market, server, download_deps, pc, root, queries, download_list, idx,
          downloaded_files, handed, calls, log, files, fpc, attempt, total_size,
          temp_bound, trace>>

\* The entries a key can have in the marketplace. An entry says whether the query
\* finds a version for the target platform that carries a VSIX package (lookup),
\* the state of that version's manifest asset, and the extensionDependencies the
\* manifest declares.
Entries(depNames, lookups, manifests) ==
    [lookup : lookups, manifest : manifests,
     deps : UNION {[1..n -> depNames] : n \in 0..MaxDeps}]

\* ------------------------------------------------------------------- main

Marker == "marketplace.visualstudio.com/items?itemName="

\* The position of the marker in the URL, 0 when it is not there.
MarkerAt(u) ==
    IF \E i \in 1..Len(u) : u[i] = Marker
    THEN CHOOSE i \in 1..Len(u) : u[i] = Marker
    ELSE 0

\* parse_extension_url: the pattern is the marker, a publisher without a dot, a
\* dot and an id.
parse_extension_url(u) ==
    LET i == MarkerAt(u)
    IN  IF i # 0 /\ Len(u) >= i + 3 /\ u[i + 1] # Dot /\ u[i + 2] = Dot
        THEN [raised |-> FALSE, publisher |-> <<u[i + 1]>>,
              extension_id |-> SubSeq(u, i + 3, Len(u))]
        ELSE [raised |-> TRUE, publisher |-> None, extension_id |-> None]

\* lines 277-292 of main: the URL is parsed and the tree is built. A malformed URL
\* and a failure of the root's Locator call reach main's handler, which exits
\* with status 1.
MainBuild ==
    /\ pc = "build"
    /\ LET parsed == parse_extension_url(url)
           r == build_dependency_tree(Extension(parsed.publisher, parsed.extension_id),
                                      market, [visited |-> {}, queries |-> <<>>])
       IN  IF parsed.raised
           THEN /\ pc' = "exit1"
                /\ UNCHANGED <<root, queries>>
           ELSE /\ queries' = r.st.queries
                /\ IF r.raised
                   THEN /\ pc' = "exit1"
                        /\ root' = NoExtension
                   ELSE /\ pc' = "order"
                        /\ root' = r.ext
    /\ UNCHANGED <<url, market, server, download_deps, download_list, idx,
                   downloaded_files, handed, calls, log, files>>
    /\ UNCHANGED fetchVars

\* lines 295-299 of main, and the else of line 309: with dependencies the list is
\* the download order, without them the root alone is fetched.
MainOrder ==
    /\ pc = "order"
    /\ download_list' =
          IF download_deps
          THEN get_download_order(root, [order |-> <<>>, visited |-> {}]).order
          ELSE <<>>
    /\ pc' = "loop"
    /\ UNCHANGED <<url, market, server, download_deps, root, queries, idx,
                   downloaded_files, handed, calls, log, files>>
    /\ UNCHANGED fetchVars

\* The items of a main that fetches the whole order whatever the answer was.
ItemsWholeOrder ==
    IF download_deps THEN download_list
    ELSE get_download_order(root, [order |-> <<>>, visited |-> {}]).order

\* The items main fetches: the download list, or the root alone (line 311).
Items == IF download_deps THEN download_list ELSE <<root>>

\* The output path of the item being fetched.
CurrentPath == OutputPath(Items[idx], idx)

\* The error of a log entry of an item that was fetched.
NoError == ""

\* main after download_extension returned the path: lines 305-306, 312-313.
Fetched(path) ==
    /\ downloaded_files' = Append(downloaded_files, path)
    /\ log' = Append(log, [key |-> Items[idx].key, path |-> path, error |-> NoError])
    /\ idx' = idx + 1
    /\ pc' = "loop"

\* What lines 307-308 and 321-323 do with the loop after an error: a variant in
\* which the handler of the loop gives the run up as well.
FetchRaisedAborts(error) ==
    /\ log' = Append(log, [key |-> Items[idx].key, path |-> None, error |-> error])
    /\ UNCHANGED downloaded_files
    /\ idx' = idx
    /\ pc' = "exit1"

\* A handler that hands the path of the failed item on as well.
FetchRaisedKeepsPath(error) ==
    /\ log' = Append(log, [key |-> Items[idx].key, path |-> None, error |-> error])
    /\ downloaded_files' = Append(downloaded_files, CurrentPath)
    /\ IF download_deps
       THEN /\ idx' = idx + 1
            /\ pc' = "loop"
       ELSE /\ idx' = idx
            /\ pc' = "exit1"

\* main after download_extension raised: inside the loop the handler of lines
\* 307-308 prints the error and the loop goes on; the single download of line 311
\* has no handler of its own, and the one of lines 321-323 exits with status 1.
FetchRaised(error) ==
    /\ log' = Append(log, [key |-> Items[idx].key, path |-> None, error |-> error])
    /\ UNCHANGED downloaded_files
    /\ IF download_deps
       THEN /\ idx' = idx + 1
            /\ pc' = "loop"
       ELSE /\ idx' = idx
            /\ pc' = "exit1"

\* ------------------------------------------------- trees and orders, read

RECURSIVE Nodes(_)
\* Every node of a tree: the tree itself and the nodes of its dependencies.
Nodes(node) ==
    {node} \cup UNION {Nodes(node.dependencies[i]) : i \in 1..Len(node.dependencies)}

TreeKeys(node) == {n.key : n \in Nodes(node)}

\* The keys of the proper descendants of a node.
KeysBelow(node) ==
    UNION {TreeKeys(node.dependencies[i]) : i \in 1..Len(node.dependencies)}

RECURSIVE Positions(_, _)
\* At how many positions of the tree a key occurs.
Positions(node, key) ==
    LET below[i \in 0..Len(node.dependencies)] ==
            IF i = 0 THEN 0 ELSE below[i - 1] + Positions(node.dependencies[i], key)
    IN  (IF node.key = key THEN 1 ELSE 0) + below[Len(node.dependencies)]

\* The indices of the entries of an order that carry a key.
IndicesOf(order, key) == {i \in 1..Len(order) : order[i].key = key}

\* The index of the first entry carrying the key, 0 when there is none.
FirstIndex(order, key) ==
    IF IndicesOf(order, key) = {} THEN 0
    ELSE CHOOSE i \in IndicesOf(order, key) : \A j \in IndicesOf(order, key) : i <= j

\* The dependency comes before the parent in the order, both being in it.
Before(order, depKey, parentKey) ==
    /\ FirstIndex(order, depKey) # 0
    /\ FirstIndex(order, parentKey) # 0
    /\ FirstIndex(order, depKey) < FirstIndex(order, parentKey)

\* ------------------------------------- download_extension, download_with_retry

\* A loop that runs once more than max_retries.
OneMoreRetry == 2 + 2

\* line 186: max_retries=3
max_retries == 3

\* line 207: os.path.getsize(temp_path) == total_size
SizeAlwaysVerified(file, total) == TRUE

SizeVerified(file, total) == file.bytes = total

\* line 236: os.path.exists(output_path)
AlreadyNever(fs, path) == FALSE

AlreadyDownloaded(fs, path) == path \in DOMAIN fs

\* lines 220-221: the temp file is removed when it is there.
KeepTemp(fs, path) == fs

RemoveTemp(fs, path) ==
    IF TempPath(path) \in DOMAIN fs THEN Without(fs, TempPath(path)) ELSE fs

\* download_with_retry has returned or raised: nothing of it is left running.
FetchOver ==
    /\ fpc' = "idle"
    /\ UNCHANGED <<attempt>>

\* The handler of lines 214-222, entered with the file system fs, the event ev of
\* the failure and whether temp_path is bound by now. Before the last attempt it
\* goes to the sleep of line 218; on the last attempt it removes the temp file and
\* raises the error again. With temp_path never bound, line 220 raises
\* UnboundLocalError in place of the error.
Handler(fs, ev, error, bound) ==
    /\ trace' = trace \o ev
    /\ temp_bound' = bound
    /\ IF attempt < max_retries - 1
       THEN /\ fpc' = "sleep"
            /\ files' = fs
            /\ UNCHANGED <<pc, idx, downloaded_files, log, attempt>>
       ELSE /\ FetchOver
            /\ IF bound
               THEN /\ files' = RemoveTemp(fs, CurrentPath)
                    /\ FetchRaised(error)
               ELSE /\ files' = fs
                    /\ FetchRaised("UnboundLocalError")

\* line 304 or 311 and lines 226-240: download_extension is called for the next
\* item. A file already at the output path is returned at once.
DownloadExtension ==
    /\ pc = "loop"
    /\ fpc = "idle"
    /\ idx <= Len(Items)
    /\ calls' = Append(calls, [key |-> Items[idx].key, index |-> idx, total |-> Len(Items)])
    /\ trace' = <<>>
    /\ temp_bound' = FALSE
    /\ total_size' = 0
    /\ attempt' = 0
    /\ IF AlreadyDownloaded(files, CurrentPath)
       THEN /\ Fetched(CurrentPath)
            /\ fpc' = "idle"
       ELSE /\ pc' = "fetch"
            /\ fpc' = "get"
            /\ UNCHANGED <<idx, downloaded_files, log>>
    /\ UNCHANGED <<handed, files>>
    /\ UNCHANGED mainVars

\* lines 190-191: the GET raises (no connection, or a status that
\* raise_for_status rejects).
GetFails ==
    /\ pc = "fetch"
    /\ fpc = "get"
    /\ Handler(files, <<"get", "get_failed">>, "TransportError", temp_bound)
    /\ UNCHANGED <<handed, calls, total_size>>
    /\ UNCHANGED mainVars

\* The total_size of line 193: the content-length header, 0 when there is none.
TotalSize(has_length) == IF has_length THEN server[Items[idx].key] ELSE 0

\* requests.get(url) can be answered only for a url: with download_url None it
\* raises (MissingSchema) before any request is sent.
Reachable(extension) == extension.download_url # None

\* lines 190-196: the response arrives, with or without a content-length, and the
\* temp file is opened for writing.
GetResponds ==
    /\ pc = "fetch"
    /\ fpc = "get"
    /\ Reachable(Items[idx])
    /\ \E has_length \in BOOLEAN :
          /\ total_size' = TotalSize(has_length)
          /\ files' = (TempPath(CurrentPath) :> FreshTemp(TotalSize(has_length))) @@ files
          /\ trace' = trace \o <<"get", IF has_length THEN "length" ELSE "no_length">>
    /\ temp_bound' = TRUE
    /\ fpc' = "stream"
    /\ UNCHANGED <<pc, idx, downloaded_files, handed, calls, log, attempt>>
    /\ UNCHANGED mainVars

\* line 196: the response arrives and open(temp_path, 'wb') raises.
OpenFails ==
    /\ pc = "fetch"
    /\ fpc = "get"
    /\ Reachable(Items[idx])
    /\ \E has_length \in BOOLEAN :
          /\ total_size' = TotalSize(has_length)
          /\ Handler(files,
                     <<"get", IF has_length THEN "length" ELSE "no_length", "open_failed">>,
                     "OSError", TRUE)
    /\ UNCHANGED <<handed, calls>>
    /\ UNCHANGED mainVars

\* lines 202-204: one more chunk of the body is written.
WriteChunk ==
    /\ pc = "fetch"
    /\ fpc = "stream"
    /\ files[TempPath(CurrentPath)].bytes < server[Items[idx].key]
    /\ files' = [files EXCEPT ![TempPath(CurrentPath)].bytes = @ + 1]
    /\ UNCHANGED <<pc, idx, downloaded_files, handed, calls, log>>
    /\ UNCHANGED fetchVars
    /\ UNCHANGED mainVars

\* line 202: iter_content raises in mid-stream; the with statement closes the file.
StreamFails ==
    /\ pc = "fetch"
    /\ fpc = "stream"
    /\ Handler(files, <<"stream_failed">>, "TransportError", temp_bound)
    /\ UNCHANGED <<handed, calls, total_size>>
    /\ UNCHANGED mainVars

\* lines 202-205: the stream ends without an error, after the whole body or short
\* of it, and the file is closed.
StreamEnds ==
    /\ pc = "fetch"
    /\ fpc = "stream"
    /\ files' = [files EXCEPT ![TempPath(CurrentPath)].ended = TRUE]
    /\ fpc' = "verify"
    /\ trace' = Append(trace, "stream_ended")
    /\ UNCHANGED <<pc, idx, downloaded_files, handed, calls, log, attempt, total_size,
                   temp_bound>>
    /\ UNCHANGED mainVars

\* os.rename(temp_path, output_path)
Renamed(fs, path) == (path :> fs[TempPath(path)]) @@ Without(fs, TempPath(path))

\* lines 207-209 and 243-244: the size is the one expected, the temp file is
\* renamed and the path returned.
RenameOk ==
    /\ pc = "fetch"
    /\ fpc = "verify"
    /\ SizeVerified(files[TempPath(CurrentPath)], total_size)
    /\ files' = Renamed(files, CurrentPath)
    /\ trace' = Append(trace, "renamed")
    /\ FetchOver
    /\ Fetched(CurrentPath)
    /\ UNCHANGED <<handed, calls, total_size, temp_bound>>
    /\ UNCHANGED mainVars

\* line 208: os.rename raises.
RenameFails ==
    /\ pc = "fetch"
    /\ fpc = "verify"
    /\ SizeVerified(files[TempPath(CurrentPath)], total_size)
    /\ Handler(files, <<"rename_failed">>, "OSError", temp_bound)
    /\ UNCHANGED <<handed, calls, total_size>>
    /\ UNCHANGED mainVars

\* lines 210-212, 224 and 245-246: the size is not the one expected; the loop
\* continues with the next attempt, and after the last one download_with_retry
\* returns False and download_extension raises.
SizeMismatch ==
    /\ pc = "fetch"
    /\ fpc = "verify"
    /\ ~SizeVerified(files[TempPath(CurrentPath)], total_size)
    /\ trace' = Append(trace, "mismatch")
    /\ IF attempt + 1 < max_retries
       THEN /\ attempt' = attempt + 1
            /\ fpc' = "get"
            /\ UNCHANGED <<pc, idx, downloaded_files, log>>
       ELSE /\ FetchOver
            /\ FetchRaised("DownloadFailed")
    /\ UNCHANGED <<handed, calls, files, total_size, temp_bound>>
    /\ UNCHANGED mainVars

\* line 218: time.sleep(1), then the next attempt.
Backoff ==
    /\ pc = "fetch"
    /\ fpc = "sleep"
    /\ trace' = Append(trace, "sleep")
    /\ attempt' = attempt + 1
    /\ fpc' = "get"
    /\ UNCHANGED <<pc, idx, downloaded_files, handed, calls, log, files, total_size,
                   temp_bound>>
    /\ UNCHANGED mainVars

\* lines 315-319 of main: the loop is over; with files downloaded the user may have
\* them installed, and main returns.
MainFinish ==
    /\ pc = "loop"
    /\ fpc = "idle"
    /\ idx > Len(Items)
    /\ \E install \in BOOLEAN :
          handed' = IF downloaded_files # <<>> /\ install
                    THEN <<downloaded_files>> ELSE <<>>
    /\ pc' = "done"
    /\ UNCHANGED <<idx, downloaded_files, calls, log, files>>
    /\ UNCHANGED fetchVars
    /\ UNCHANGED mainVars

\* The exit status of the process: 1 from sys.exit(1) of line 323, 0 when main
\* returns.
ExitStatus == IF pc = "exit1" THEN 1 ELSE 0

Exited == pc \in {"done", "exit1"}

\* ---------------------------------------------------------- specifications

ValidUrl == <<"https://", Marker, "p", Dot, "a">>

InvalidUrl == <<"https://", "example.com/items">>

Entry(lookup, deps) == [lookup |-> lookup, manifest |-> "ok", deps |-> deps]

A == KeyOf(Publisher, <<"a">>)

B == KeyOf(Publisher, <<"b">>)

C == KeyOf(Publisher, <<"c">>)

\* The marketplaces of the pipeline's runs: a single extension, a chain, a key
\* reached by two paths, a cycle, a dependency without a package for the platform
\* that is declared twice, and a root without one.
MainMarkets ==
    { (A :> Entry("ok", <<>>)),
      (A :> Entry("ok", <<B>>)) @@ (B :> Entry("ok", <<C>>)) @@ (C :> Entry("ok", <<>>)),
      (A :> Entry("ok", <<B, C>>)) @@ (B :> Entry("ok", <<C>>)) @@ (C :> Entry("ok", <<>>)),
      (A :> Entry("ok", <<B>>)) @@ (B :> Entry("ok", <<A>>)),
      (A :> Entry("ok", <<C, B>>)) @@ (B :> Entry("ok", <<C>>)) @@ (C :> Entry("no_variant", <<>>)),
      (A :> Entry("no_variant", <<>>)) }

\* The items a run with this input will fetch.
PlannedItems(u, m, deps) ==
    LET parsed == parse_extension_url(u)
        r == build_dependency_tree(Extension(parsed.publisher, parsed.extension_id), m,
                                   [visited |-> {}, queries |-> <<>>])
    IN  IF parsed.raised \/ r.raised THEN <<>>
        ELSE IF deps THEN get_download_order(r.ext, [order |-> <<>>, visited |-> {}]).order
        ELSE <<r.ext>>

\* The output directories a run can start in: any of the files it is going to
\* write may be there already, left by an earlier run.
StartingFiles(u, m, deps) ==
    LET items == PlannedItems(u, m, deps)
    IN  {[p \in S |-> OldFile] :
            S \in SUBSET {OutputPath(items[i], i) : i \in 1..Len(items)}}

Start ==
    /\ pc = "build"
    /\ root = NoExtension
    /\ queries = <<>>
    /\ download_list = <<>>
    /\ idx = 1
    /\ downloaded_files = <<>>
    /\ handed = <<>>
    /\ calls = <<>>
    /\ log = <<>>
    /\ fpc = "idle"
    /\ attempt = 0
    /\ total_size = 0
    /\ temp_bound = FALSE
    /\ trace = <<>>

\* The whole of main, over the marketplaces MainMarkets.
Init ==
    /\ url \in {ValidUrl, InvalidUrl}
    /\ market \in MainMarkets
    /\ server = [k \in DOMAIN market |-> 1]
    /\ download_deps \in BOOLEAN
    /\ files \in StartingFiles(url, market, download_deps)
    /\ Start

Next ==
    \/ MainBuild
    \/ MainOrder
    \/ DownloadExtension
    \/ GetFails
    \/ GetResponds
    \/ OpenFails
    \/ WriteChunk
    \/ StreamFails
    \/ StreamEnds
    \/ RenameOk
    \/ RenameFails
    \/ SizeMismatch
    \/ Backoff
    \/ MainFinish

Spec == Init /\ [][Next]_vars

\* The build and the ordering alone, over every marketplace of three keys whose
\* manifests declare up to MaxDeps dependencies each.
InitTree ==
    /\ url = ValidUrl
    /\ market \in [Keys -> {e \in Entries(Keys, {"ok", "no_variant"}, {"ok"}) :
                               e.lookup = "ok" \/ e.deps = <<>>}]
    /\ server = [k \in Keys |-> 1]
    /\ download_deps = TRUE
    /\ files = <<>>
    /\ Start

NextTree == MainBuild \/ MainOrder

SpecTree == InitTree /\ [][NextTree]_vars

\* Dependency names a manifest can hold that are not publisher.name: one without a
\* dot and one with two.
NoDotName == <<"x">>

TwoDotName == <<"p", Dot, "a", Dot, "b">>

\* The build and the ordering over marketplaces whose manifests can be missing
\* (no manifest asset), fail to load, or declare names that are not
\* publisher.name: the root declares up to MaxDeps names, the other two
\* extensions one of a few lists.
InitLocator ==
    /\ url = ValidUrl
    /\ \E ea \in Entries({B, C, NoDotName, TwoDotName}, {"ok"}, {"ok", "absent", "error"}),
          eb \in {e \in [lookup : {"ok", "no_variant"}, manifest : {"ok", "absent", "error"},
                          deps : {<<>>, <<C>>, <<TwoDotName>>, <<NoDotName, A>>}] :
                      e.lookup = "ok" \/ (e.deps = <<>> /\ e.manifest = "ok")},
          ec \in {e \in [lookup : {"ok", "no_variant"}, manifest : {"ok", "error"},
                          deps : {<<>>, <<NoDotName>>}] :
                      e.lookup = "ok" \/ (e.deps = <<>> /\ e.manifest = "ok")} :
          market = (A :> ea) @@ (B :> eb) @@ (C :> ec)
    /\ server = [k \in Keys |-> 1]
    /\ download_deps = TRUE
    /\ files = <<>>
    /\ Start

SpecLocator == InitLocator /\ [][NextTree]_vars

\* The fetch of one extension, over every length of body up to MaxBytes.
InitFetch ==
    /\ url = ValidUrl
    /\ market = (A :> Entry("ok", <<>>))
    /\ server \in [{A} -> 0..MaxBytes]
    /\ download_deps \in BOOLEAN
    /\ files \in StartingFiles(url, market, download_deps)
    /\ Start

SpecFetch == InitFetch /\ [][Next]_vars

\* The same under the scheduling of a sequential program: a step that can be taken
\* is taken (every request is answered or fails, every sleep ends).
SpecFetchFair == SpecFetch /\ WF_vars(Next)

\* ----------------------------------------------------------------- claims

\* C1 as stated: for every edge (parent -> dependency) of the built tree, cycles
\* included, the first entry of the download order with the dependency's key comes
\* strictly before the first entry with the parent's key.
C1_EveryEdgeOrdered ==
    pc = "loop" =>
        \A n \in Nodes(root) : \A i \in 1..Len(n.dependencies) :
            Before(download_list, n.dependencies[i].key, n.key)

\* C1 amended: the same for every edge whose parent's key does not occur again
\* among the parent's own descendants in the tree (the parent is on no dependency
\* cycle that the build collapsed into a stub of it).
C1_AcyclicEdgeOrdered ==
    pc = "loop" =>
        \A n \in Nodes(root) :
            n.key \notin KeysBelow(n) =>
                \A i \in 1..Len(n.dependencies) :
                    Before(download_list, n.dependencies[i].key, n.key)

\* C1 witness: an order of three keys was produced from a tree in which a key is
\* reached by two paths and whose root is on no cycle.
C1_Witness ==
    /\ pc = "loop"
    /\ Len(download_list) = 3
    /\ Len(root.dependencies) = 2
    /\ root.key \notin KeysBelow(root)
    /\ \E k \in Keys : Positions(root, k) >= 2

\* C2: every entry of the download order is fully resolved: its version and its
\* download_url are set.
C2_OrderFullyResolved ==
    pc = "loop" =>
        \A i \in 1..Len(download_list) :
            /\ download_list[i].version # None
            /\ download_list[i].download_url # None

\* C3: the download order has exactly one entry per distinct key of the tree.
C3_EachKeyOnce ==
    pc = "loop" =>
        /\ Len(download_list) = Cardinality(TreeKeys(root))
        /\ \A k \in TreeKeys(root) : Cardinality(IndicesOf(download_list, k)) = 1

\* C3 witness: the order was taken from a tree of three keys one of which occurs
\* at two positions.
C3_Witness ==
    /\ pc = "loop"
    /\ Cardinality(TreeKeys(root)) = 3
    /\ \E k \in Keys : Positions(root, k) >= 2

\* How often an event occurs in a trace.
Count(t, ev) == Cardinality({i \in 1..Len(t) : t[i] = ev})

IsTemp(p) == p[Len(p)] = ".tmp"

\* The output path of a run that fetches one item.
OnePath == OutputPath(Items[1], 1)

\* download_extension was called for the one item and has returned or raised.
OneFetchOver == Len(calls) = 1 /\ Len(log) = 1 /\ fpc = "idle"

\* C4: at every point, a file at a final path is either one that was there before
\* the run, unchanged, or the temp file of a stream that ended and whose size was
\* the expected one, moved there by the one rename of the fetch.
C4_FinalPathVerified ==
    \A p \in DOMAIN files :
        ~IsTemp(p) =>
            \/ files[p] = OldFile
            \/ /\ files[p].origin = "stream"
               /\ files[p].ended
               /\ files[p].bytes = files[p].declared
               /\ Count(trace, "renamed") = 1

\* C4 witness: a body of two chunks is at the final path after an earlier attempt
\* of the same fetch had ended short.
C4_Witness ==
    /\ OneFetchOver
    /\ Count(trace, "mismatch") >= 1
    /\ OnePath \in DOMAIN files
    /\ files[OnePath].origin = "stream"
    /\ files[OnePath].bytes = 2

C6_NoLengthAccepted ==
    \A i \in 1..Len(trace) :
        (i + 2 <= Len(trace) /\ trace[i] = "no_length" /\ trace[i + 1] = "stream_ended")
            => trace[i + 2] # "mismatch"

\* Every one of the max_retries attempts of the fetch ended in a transport failure.
AllTransportFailures ==
    /\ Count(trace, "get") = max_retries
    /\ Count(trace, "get_failed") + Count(trace, "stream_failed") = max_retries

C8_NoTempAfterFetch ==
    OneFetchOver => TempPath(OnePath) \notin DOMAIN files

\* The calls a loop over the whole download list makes.
AllCalls ==
    [i \in 1..Len(download_list) |->
        [key |-> download_list[i].key, index |-> i, total |-> Len(download_list)]]

\* C9: with dependencies, no fetch failure ends the run: the calls made are at
\* every point the first ones of the download order, with the positions 1..N, the
\* run ends with status 1 only before the first call, and when main returns
\* download_extension was called once for every item.
C9_EveryItemFetched ==
    download_deps =>
        /\ calls = SubSeq(AllCalls, 1, Len(calls))
        /\ pc = "exit1" => calls = <<>>
        /\ pc = "done" => calls = AllCalls

\* C9 witness: main has returned after three calls of which the first two raised.
C9_Witness ==
    /\ download_deps
    /\ pc = "done"
    /\ Len(calls) = 3
    /\ log[1].error # NoError
    /\ log[2].error # NoError
    /\ log[3].error = NoError

\* C10: the run ends with status 1 exactly when the fetch of an item failed or
\* the run was given up for the root or the input.
C10_ExitStatusReflectsFailures ==
    Exited =>
        (ExitStatus = 1 <=>
            \/ \E i \in 1..Len(log) : log[i].error # NoError
            \/ root = NoExtension)

\* C11: without dependencies the only download_extension call of the run is the
\* one for the root, as item 1 of 1, and main returns after exactly that call.
C11_RootAloneFetched ==
    ~download_deps =>
        /\ calls = <<>> \/ calls = <<[key |-> A, index |-> 1, total |-> 1]>>
        /\ pc = "done" => Len(calls) = 1
        /\ \A i \in 1..Len(log) : log[i].key = A

\* C11 witness: main has returned after the one call, for a root that has
\* dependencies in its tree.
C11_Witness ==
    /\ ~download_deps
    /\ pc = "done"
    /\ Len(calls) = 1
    /\ Len(root.dependencies) >= 1

\* The indices of the items whose fetch returned a path, in order.
SucceededItems == SelectSeq([i \in 1..Len(log) |-> i], LAMBDA i : log[i].error = NoError)

\* The output paths of those items.
SucceededPaths ==
    [j \in 1..Len(SucceededItems) |-> OutputPath(Items[SucceededItems[j]], SucceededItems[j])]

\* C12: downloaded_files, and the list install_extensions is called with, hold
\* the output paths of the items that were fetched or found already there, each
\* once and in the order of the items, each with its file in place, and no path
\* of an item whose fetch failed.
C12_HandedPathsAreTheFetchedOnes ==
    /\ downloaded_files = SucceededPaths
    /\ handed # <<>> => handed = <<SucceededPaths>>
    /\ \A j \in 1..Len(downloaded_files) : downloaded_files[j] \in DOMAIN files
    /\ \A j, k \in 1..Len(downloaded_files) :
          downloaded_files[j] = downloaded_files[k] => j = k

\* C12 witness: install_extensions was called with two paths, the first of a file
\* that was already there and the second of the third item, the second item's
\* fetch having failed.
C12_Witness ==
    /\ pc = "done"
    /\ handed # <<>>
    /\ Len(log) = 3
    /\ log[2].error # NoError
    /\ Len(handed[1]) = 2
    /\ files[handed[1][1]] = OldFile
    /\ files[handed[1][2]] # OldFile

\* The attempts of the current fetch that have ended in a failure.
FailedAttempts ==
    Count(trace, "get_failed") + Count(trace, "open_failed") + Count(trace, "stream_failed")
        + Count(trace, "mismatch") + Count(trace, "rename_failed")

\* What C13 says of every state of a fetch.
AttemptsBounded ==
    /\ Count(trace, "get") <= 3
    /\ Count(trace, "get") =
          FailedAttempts + Count(trace, "renamed")
              + (IF fpc \in {"stream", "verify"} THEN 1 ELSE 0)
    /\ pc = "fetch" /\ fpc \in {"get", "sleep"} => FailedAttempts = attempt + (IF fpc = "sleep" THEN 1 ELSE 0)
    /\ Count(trace, "renamed") >= 1 =>
          /\ Count(trace, "renamed") = 1
          /\ trace[Len(trace)] = "renamed"
          /\ OneFetchOver
          /\ log[1] = [key |-> Items[1].key, path |-> OnePath, error |-> NoError]
          /\ OnePath \in DOMAIN files
          /\ TempPath(OnePath) \notin DOMAIN files

\* C13: a fetch makes at most 3 GETs, every failed attempt (transport failure or
\* size mismatch) having used up one of them; after the attempt that succeeded
\* there is no other, the file is at the final path and the path is returned; and
\* every fetch that was started comes to its end.
C13_ThreeAttemptsAndTermination ==
    /\ []AttemptsBounded
    /\ (pc = "fetch") ~> (pc # "fetch")

\* C13 witness: the first attempt failed with a transport error, the second one
\* succeeded, and the fetch is over with the file renamed.
C13_Witness ==
    /\ OneFetchOver
    /\ trace = <<"get", "get_failed", "sleep", "get", "length", "stream_ended", "renamed">>
    /\ OnePath \in DOMAIN files

\* The resolved nodes of a tree: those the Locator was called for.
Resolved(node) == {n \in Nodes(node) : n.version # None}

\* The Locator calls the build of the tree makes for an extension, counted before
\* main runs it.
CallsOfBuild(publisher, extension_id) ==
    build_dependency_tree(Extension(publisher, extension_id), market,
                          [visited |-> {}, queries |-> <<>>]).st.queries

\* C14: the Locator is called at most once per key, for keys whose call failed
\* too; the build comes to its end for every marketplace, cycles included, after
\* at most one call per key of the marketplace; and a node returned for a key
\* already visited has no dependencies: at most one node of a key is resolved,
\* and the others are empty.
C14_OneLocatorCallPerKey ==
    /\ \A k \in Keys : Len(CallsOfBuild(Publisher, Split(k)[2])) <= Cardinality(Keys)
    /\ \A i, j \in 1..Len(queries) : queries[i] = queries[j] => i = j
    /\ \A n \in Nodes(root) : n.version = None => n.dependencies = <<>>
    /\ \A k \in TreeKeys(root) : Cardinality({n \in Resolved(root) : n.key = k}) <= 1

\* C14 witness: the build is over for a marketplace with a cycle through the root
\* in which a key without a package is declared by two extensions.
C14_Witness ==
    /\ pc = "order"
    /\ root.key \in KeysBelow(root)
    /\ \E k \in Keys :
          /\ market[k].lookup # "ok"
          /\ Cardinality({p \in Keys : \E i \in 1..Len(market[p].deps) : market[p].deps[i] = k}) = 2
          /\ \E i \in 1..Len(queries) : queries[i] = k

\* The keys the marketplace has a package of for the platform.
LookupOk(key) == key \in DOMAIN market /\ market[key].lookup = "ok"

RECURSIVE IsSubseq(_, _)
\* s is t with some of its elements left out.
IsSubseq(s, t) ==
    IF s = <<>> THEN TRUE
    ELSE IF t = <<>> THEN FALSE
    ELSE IF Head(s) = Head(t) THEN IsSubseq(Tail(s), Tail(t))
    ELSE IsSubseq(s, Tail(t))

\* The keys of the dependencies of a node, in their order.
DepKeys(node) == [i \in 1..Len(node.dependencies) |-> node.dependencies[i].key]

\* The declared names of a key that have a package, in the manifest's order.
DeclaredOk(key) == SelectSeq(market[key].deps, LAMBDA d : LookupOk(d))

\* C15: a dependency whose Locator call fails is left out of its parent alone: the
\* parent is built, and its dependencies are declared names in the manifest's
\* order with every declared name that has a package among them. A root whose
\* call fails ends the run with status 1 and nothing is ever fetched.
C15_FailureCaughtPerDependency ==
    (url = ValidUrl /\ pc # "build") =>
        /\ LookupOk(A) =>
              /\ root.key = A /\ root.version # None
              /\ \A n \in Resolved(root) :
                    /\ IsSubseq(DepKeys(n), market[n.key].deps)
                    /\ IsSubseq(DeclaredOk(n.key), DepKeys(n))
        /\ ~LookupOk(A) =>
              /\ pc = "exit1"
              /\ calls = <<>>
              /\ downloaded_files = <<>>
              /\ fpc = "idle"

\* C15 witness: the run is over, and the root declared a name without a package
\* before one with a package, which is among its dependencies.
C15_Witness ==
    /\ pc = "done"
    /\ root.version # None
    /\ \E i, j \in 1..Len(market[A].deps) :
          /\ i < j
          /\ ~LookupOk(market[A].deps[i])
          /\ LookupOk(market[A].deps[j])
          /\ \E d \in 1..Len(root.dependencies) : root.dependencies[d].key = market[A].deps[j]

\* C16: once the rename of a fetch has failed, no further attempt is made for the
\* item: no GET follows a failed rename.
C16_RenameFailureTerminal ==
    \A i, j \in 1..Len(trace) :
        (i < j /\ trace[i] = "rename_failed") => trace[j] # "get"

\* C17: when the last attempt of a fetch ended in a transport failure, the error
\* that reaches main is that transport error, whatever the earlier attempts did.
C17_TransportErrorReachesMain ==
    (/\ OneFetchOver
     /\ Count(trace, "get") = max_retries
     /\ trace[Len(trace)] \in {"get_failed", "stream_failed"})
        => log[1] = [key |-> Items[1].key, error |-> "TransportError", path |-> None]

\* C20: every attempt of a fetch but the first starts right after a backoff delay.
C20_BackoffBetweenAttempts ==
    \A i \in 2..Len(trace) : trace[i] = "get" => trace[i - 1] = "sleep"

\* A name of the form publisher.name: it holds exactly one dot.
WellFormed(d) == Cardinality({i \in 1..Len(d) : d[i] = Dot}) = 1

\* The names the manifest of a key hands to the build, in its order.
Declared(key) == IF market[key].manifest = "ok" THEN market[key].deps ELSE <<>>

\* C18: a declared name without a dot or with more than one is skipped: the
\* Locator is only ever called for the root and for declared names with exactly
\* one dot, the root is built, and the dependencies of every built extension are
\* well-formed declared names in the manifest's order, with every well-formed
\* declared name that has a package among them.
C18_MalformedNameSkipped ==
    pc # "build" =>
        /\ root.key = A /\ root.version # None
        /\ \A i \in 1..Len(queries) :
              \/ queries[i] = A
              \/ /\ WellFormed(queries[i])
                 /\ \E k \in Keys : \E j \in 1..Len(Declared(k)) : Declared(k)[j] = queries[i]
        /\ \A n \in Resolved(root) :
              /\ IsSubseq(DepKeys(n), SelectSeq(Declared(n.key), WellFormed))
              /\ IsSubseq(SelectSeq(Declared(n.key), LAMBDA d : WellFormed(d) /\ LookupOk(d)),
                          DepKeys(n))

\* C18 witness: the root's manifest declared a name with two dots and then an
\* extension with a package, which is the root's one dependency.
C18_Witness ==
    /\ pc = "order"
    /\ Declared(A) = <<TwoDotName, B>>
    /\ LookupOk(B)
    /\ DepKeys(root) = <<B>>
    /\ \E k \in Keys : \E j \in 1..Len(Declared(k)) : Declared(k)[j] = NoDotName

\* C19: an extension with a package whose manifest asset is missing or fails to
\* load is built all the same: every key the Locator was called for and has a
\* package of is a node of the tree with its version and download URL, and with
\* no dependencies when there was no manifest.
C19_MissingManifestNotFatal ==
    pc # "build" =>
        \A i \in 1..Len(queries) :
            LookupOk(queries[i]) =>
                \E n \in Nodes(root) :
                    /\ n.key = queries[i]
                    /\ n.version = VersionOf(n.key)
                    /\ n.download_url = UrlOf(n.key)
                    /\ market[n.key].manifest # "ok" => n.dependencies = <<>>

\* C19 witness: the tree is built and holds an extension whose manifest asset is
\* missing and one whose manifest failed to load, each without dependencies
\* although its manifest declares some.
C19_Witness ==
    /\ pc = "order"
    /\ \E n1, n2 \in Resolved(root) :
          /\ market[n1.key].manifest = "absent"
          /\ market[n2.key].manifest = "error"
          /\ market[n1.key].deps # <<>> /\ n1.dependencies = <<>>
          /\ market[n2.key].deps # <<>> /\ n2.dependencies = <<>>

====
